---- MODULE Spec2Model ----
(***************************************************************************)
(* Model of jimmidyson/go-download: download of a URL to a writer or to a  *)
(* file (temp file, then rename), with optional streaming checksum         *)
(* validation.  download.go is the current API (ToFile, ToWriter,          *)
(* FromURL); the older file holds DownloadToFile, Download, DownloadURL.   *)
(* The checksum validator (newValidator, Write, validate) is not among the *)
(* sources; it is modelled from the specification (sections 3, 4, 7, 8).   *)
(*                                                                         *)
(* Strings are sequences of one-character strings.  An error value is the  *)
(* sequence of its messages, outermost first: errors.Wrap(err, m) is       *)
(* <<m>> \o err, and the error text starts with its first element.         *)
(***************************************************************************)
EXTENDS Integers, Sequences, FiniteSets, TLC

\* ------------------------------------------------------------ bounds
MaxPayload == 2    \* longest response body, in bytes
ChunkSize == 1     \* most bytes one Read of the copy loop returns
MaxContent == 7    \* longest checksum-file text of the parser specification
MaxArg == 3        \* longest checksum argument of the classification specification

\* ------------------------------------------------------------ values
None == "none"       \* no entry point, no version: before the call
Bytes == {0, 1}

RECURSIVE SeqsUpTo(_, _)
SeqsUpTo(S, n) ==
    IF n = 0 THEN {<<>>}
    ELSE LET shorter == SeqsUpTo(S, n - 1)
         IN  shorter \cup {Append(s, x) : s \in {t \in shorter : Len(t) = n - 1}, x \in S}

IsPrefix(s, t) == Len(s) <= Len(t) /\ SubSeq(t, 1, Len(s)) = s

\* errors.Wrap / errors.New of github.com/pkg/errors; Nil is the nil error,
\* Pending stands for a result not yet returned
Nil == <<>>
Pending == <<"pending">>
Wrap(err, msg) == <<msg>> \o err
NewError(msg) == <<msg>>

\* ------------------------------------------------------------ hex text
HexDigits == <<"0", "1", "2", "3", "4", "5", "6", "7", "8", "9", "a", "b", "c", "d", "e", "f">>
UpperHex == {"A", "B", "C", "D", "E", "F"}
LowerHexSet == {HexDigits[i] : i \in 1..16}

LowerChar(c) ==
    CASE c = "A" -> "a" [] c = "B" -> "b" [] c = "C" -> "c"
      [] c = "D" -> "d" [] c = "E" -> "e" [] c = "F" -> "f"
      [] OTHER -> c

UpperChar(c) ==
    CASE c = "a" -> "A" [] c = "b" -> "B" [] c = "c" -> "C"
      [] c = "d" -> "D" [] c = "e" -> "E" [] c = "f" -> "F"
      [] OTHER -> c

ToLower(s) == [i \in 1..Len(s) |-> LowerChar(s[i])]
ToUpper(s) == [i \in 1..Len(s) |-> UpperChar(s[i])]

IsHexChar(c) == c \in LowerHexSet \cup UpperHex

\* a non-empty string of hex digits
IsHex(s) == Len(s) > 0 /\ \A i \in 1..Len(s) : IsHexChar(s[i])

\* hex.EncodeToString: two lowercase digits per byte
RECURSIVE HexEncode(_)
HexEncode(bs) ==
    IF bs = <<>> THEN <<>>
    ELSE <<HexDigits[(Head(bs) \div 16) + 1], HexDigits[(Head(bs) % 16) + 1]>> \o HexEncode(Tail(bs))

\* ------------------------------------------------------------ digest engine
\* crypto.Hash selectors (values of the crypto package)
MD5 == 2
SHA1 == 3
SHA256 == 5
SHA512 == 7
Unspecified == 0
OtherHash == 4     \* crypto.SHA224: a selector the switch does not list
NoHasher == 0      \* the nil hash.Hash
Hashes == {MD5, SHA1, SHA256, SHA512}
Selectors == Hashes \cup {Unspecified, OtherHash}

\* digest width in bytes, scaled down (16, 20, 32, 64 in the library), distinct
\* per algorithm
Size(h) == CASE h = MD5 -> 2 [] h = SHA1 -> 3 [] h = SHA256 -> 4 [] h = SHA512 -> 5

\* a collision-free stand-in for the hash of a byte sequence: the sequence is
\* read as a number in base 3 (order-sensitive, injective on Bytes), kept in the
\* last digest byte; the other bytes carry the algorithm
RECURSIVE Enc(_)
Enc(data) == IF data = <<>> THEN 0 ELSE (Head(data) + 1) + 3 * Enc(Tail(data))

Sum(h, data) == [i \in 1..Size(h) |-> IF i = Size(h) THEN Enc(data) % 256 ELSE 16 * h + i]

HexDigest(h, data) == HexEncode(Sum(h, data))

\* ------------------------------------------------------------ checksum file parser
Space == {" ", "\t", "\n", "\r"}

\* strings.Split on a set of separators: the segments between them, empty ones kept
RECURSIVE SplitAcc(_, _, _, _)
SplitAcc(s, seps, cur, acc) ==
    IF s = <<>> THEN Append(acc, cur)
    ELSE IF Head(s) \in seps THEN SplitAcc(Tail(s), seps, <<>>, Append(acc, cur))
    ELSE SplitAcc(Tail(s), seps, Append(cur, Head(s)), acc)

Split(s, seps) == SplitAcc(s, seps, <<>>, <<>>)

RECURSIVE TrimLeft(_)
TrimLeft(s) == IF s # <<>> /\ Head(s) \in Space THEN TrimLeft(Tail(s)) ELSE s

RECURSIVE TrimRight(_)
TrimRight(s) ==
    IF s # <<>> /\ s[Len(s)] \in Space THEN TrimRight(SubSeq(s, 1, Len(s) - 1)) ELSE s

TrimSpace(s) == TrimRight(TrimLeft(s))

RECURSIVE NonEmpty(_)
NonEmpty(ss) ==
    IF ss = <<>> THEN <<>>
    ELSE IF Head(ss) = <<>> THEN NonEmpty(Tail(ss))
    ELSE <<Head(ss)>> \o NonEmpty(Tail(ss))

\* the whitespace-separated tokens of a line
Fields(line) == NonEmpty(Split(line, Space))

\* step 1: the lines, trimmed, the empty ones discarded
Lines(content) ==
    LET raw == Split(content, {"\n"})
    IN  NonEmpty([i \in 1..Len(raw) |-> TrimSpace(raw[i])])

\* step 2: each line as its tokens
Entries(content) == LET ls == Lines(content) IN [i \in 1..Len(ls) |-> Fields(ls[i])]

RECURSIVE WithLen(_, _)
WithLen(es, n) ==
    IF es = <<>> THEN <<>>
    ELSE IF Len(Head(es)) = n THEN <<Head(es)>> \o WithLen(Tail(es), n)
    ELSE WithLen(Tail(es), n)

\* step 3: exact string match of the filename token
NameMatches(token, target) == token = target

RECURSIVE Named(_, _)
Named(es, target) ==
    IF es = <<>> THEN <<>>
    ELSE IF NameMatches(Head(es)[2], target) THEN <<Head(es)>> \o Named(Tail(es), target)
    ELSE Named(Tail(es), target)

DigestNotFound == NewError("checksum not found for file")

\* steps 2-4: the digest for target, or the not-found error.  A bare digest is
\* used only when no two-column line is present.
resolveExpectedDigest(content, target) ==
    LET es == Entries(content)
        twoCol == WithLen(es, 2)
        bare == WithLen(es, 1)
        hits == Named(twoCol, target)
    IN  IF twoCol # <<>>
        THEN IF hits # <<>> THEN [err |-> Nil, digest |-> hits[1][1]]
             ELSE [err |-> DigestNotFound, digest |-> <<>>]
        ELSE IF bare # <<>> THEN [err |-> Nil, digest |-> bare[1][1]]
        ELSE [err |-> DigestNotFound, digest |-> <<>>]

\* ------------------------------------------------------------ checksum source resolver
\* parses as an absolute URL: a scheme, then a host
IsAbsoluteURL(s) == Len(s) >= 3 /\ s[1] = "h" /\ s[2] = ":"

InvalidChecksum == NewError("invalid checksum")
SourceUnreachable == NewError("checksum source unreachable")

\* a remote or local checksum source: absent, failing, or its text
Absent == [state |-> "absent", text |-> <<>>]
Broken == [state |-> "broken", text |-> <<>>]
Holding(text) == [state |-> "ok", text |-> text]

\* the validator for a resolved digest: the digest engine and the ExpectedDigest
Validator(hasher, digest) == [set |-> TRUE, hasher |-> hasher, expected |-> digest]
NoValidator == [set |-> FALSE, hasher |-> NoHasher, expected |-> <<>>]

FromSource(hasher, source, filename) ==
    LET r == resolveExpectedDigest(source.text, filename)
    IN  IF source.state # "ok" THEN [err |-> SourceUnreachable, v |-> NoValidator, fetched |-> TRUE]
        ELSE IF r.err # Nil THEN [err |-> r.err, v |-> NoValidator, fetched |-> TRUE]
        ELSE [err |-> Nil, v |-> Validator(hasher, r.digest), fetched |-> TRUE]

\* a bare hex string is the expected digest itself
IsLiteral(hasher, checksum) == IsHex(checksum)

\* newValidator, a faulty variant: whatever is no URL and no literal is read
\* as a local file, a missing one included
newValidatorPathAlways(hasher, client, checksum, filename, remote, local) ==
    IF IsAbsoluteURL(checksum) THEN FromSource(hasher, remote, filename)
    ELSE IF IsHex(checksum)
    THEN [err |-> Nil, v |-> Validator(hasher, checksum), fetched |-> FALSE]
    ELSE FromSource(hasher, local, filename)

\* newValidator(hasher, client, checksum, filename): remote is the answer of a GET
\* of checksum, local the file at path checksum.  fetched: a checksum source was
\* retrieved.
newValidator(hasher, client, checksum, filename, remote, local) ==
    IF IsAbsoluteURL(checksum) THEN FromSource(hasher, remote, filename)
    ELSE IF IsLiteral(hasher, checksum)
    THEN [err |-> Nil, v |-> Validator(hasher, checksum), fetched |-> FALSE]
    ELSE IF local.state # "absent" THEN FromSource(hasher, local, filename)
    ELSE [err |-> InvalidChecksum, v |-> NoValidator, fetched |-> FALSE]

\* validate(): both lowercased, equal as strings
validate(v, fed) == ToLower(HexDigest(v.hasher, fed)) = ToLower(v.expected)

\* ------------------------------------------------------------ inputs
Bodies == SeqsUpTo(Bytes, MaxPayload)
RefData == <<0, 1>>                  \* the file the published checksums are of
\* the file at dest: NoFile, or a file and its content
NoFile == <<>>
File(data) == <<data>>
OldFile == File(<<1, 1, 1>>)         \* what was at dest before the call, if anything

\* source URL paths, as their segments: /d/f and /g
SrcPaths == {<< <<"d">>, <<"f">> >>, << <<"g">> >>}

\* a checksum file with a line for another file, then the line of file f
TwoColumn(h) ==
    HexDigest(h, <<>>) \o <<" ", "x", "\n">> \o HexDigest(h, RefData) \o <<" ", " ", "f", "\n">>
\* a checksum file holding one digest and no filename
BareDigest(h) == <<" ">> \o ToUpper(HexDigest(h, RefData)) \o <<"\n">>

Sources == {Absent, Broken, Holding(TwoColumn(MD5)), Holding(BareDigest(SHA256))}

NoChecksum == <<>>
UrlArg == <<"h", ":", "s">>          \* an absolute URL of a checksum file
PathArg == <<"t", " ", "i">>         \* neither a URL nor hex: a local path, if a file is there
Truncated == SubSeq(HexDigest(MD5, RefData), 1, 2)
LiteralArgs ==
    {HexDigest(MD5, RefData), HexDigest(SHA256, RefData),
     ToUpper(HexDigest(MD5, RefData)), Truncated}
ChecksumArgs == {NoChecksum, UrlArg, PathArg} \cup LiteralArgs

MkdirsValues == {"nil", "all", "none"}   \* nil, MkdirAll, MkdirNone

NoArgs == [hasher |-> NoHasher, client |-> "nil", checksum |-> <<>>, filename |-> <<>>]

\* ------------------------------------------------------------ state
VARIABLES
    pc,         \* position of the call
    api,        \* the entry point called: "ToFile", "ToWriter" or "FromURL"
    ver,        \* "new": download.go; "old": DownloadToFile, Download, DownloadURL
    src,        \* [ok: url.Parse succeeds, path: the URL path]
    opts,       \* [checksum, hash, mkdirs]
    args,       \* the arguments of a direct call of newValidator
    remote,     \* what a GET of the checksum argument answers
    local,      \* the local file named by the checksum argument
    dir,        \* the directory of dest: "exists", "missing" or "denied"
    dest,       \* the file at dest: NoFile or File(content)
    destBefore, \* dest when the call started
    dirBefore,  \* dir when the call started
    tmpExists,  \* the temp file is in the directory
    tmpOpen,    \* the temp file's handle is open
    gets,       \* GETs of the source URL issued
    body,       \* the response body
    pos,        \* bytes of body read so far
    buf,        \* the chunk read and not yet written to w
    rdst,       \* what the Read that filled buf returned with it: "nil", "eof", "err"
    validator,  \* the checksum validator, NoValidator without one
    fed,        \* bytes written to the validator
    written,    \* bytes written to the destination writer w
    resolves,   \* calls of newValidator
    fetches,    \* checksum sources retrieved
    validates,  \* calls of validate()
    valid,      \* what validate() returned: "none" before, "true" or "false"
    copied,     \* how the copy loop ended: "none" before, "eof" or "err"
    ferr,       \* what FromURL returned: Pending before, Nil for nil
    ret         \* what the call returned: Pending before, Nil for nil

vars == <<pc, api, ver, src, opts, args, remote, local, dir, dest, destBefore, dirBefore, tmpExists,
          tmpOpen, gets, body, pos, buf, rdst, validator, fed, written, resolves,
          fetches, validates, valid, copied, ferr, ret>>

fsVars == <<dir, dest, tmpExists, tmpOpen>>
copyVars == <<body, pos, buf, rdst, fed, written, copied>>
checkVars == <<validator, resolves, fetches, validates, valid>>
callVars == <<api, ver, src, opts, args, remote, local, destBefore, dirBefore>>

Init ==
    /\ pc = "idle"
    /\ api = None /\ ver = None
    /\ src = [ok |-> TRUE, path |-> <<>>]
    /\ opts = [checksum |-> NoChecksum, hash |-> Unspecified, mkdirs |-> "nil"]
    /\ args = NoArgs
    /\ remote = Absent /\ local = Absent
    /\ dir = "exists" /\ dirBefore = "exists" /\ dest = NoFile /\ destBefore = NoFile
    /\ tmpExists = FALSE /\ tmpOpen = FALSE
    /\ gets = 0
    /\ body = <<>> /\ pos = 0 /\ buf = <<>> /\ rdst = "nil"
    /\ validator = NoValidator
    /\ fed = <<>> /\ written = <<>>
    /\ resolves = 0 /\ fetches = 0 /\ validates = 0
    /\ valid = "none" /\ copied = "none"
    /\ ferr = Pending /\ ret = Pending

\* ------------------------------------------------------------ helpers of the calls
Min(a, b) == IF a < b THEN a ELSE b

\* path.Base, a faulty variant: the first segment of the path
PathBaseFirst(path) == IF path = <<>> THEN <<".">> ELSE path[1]
\* path.Base of the URL path: its last segment, "." for the empty path
PathBase(path) == IF path = <<>> THEN <<".">> ELSE path[Len(path)]

\* the hasher switch, a faulty variant: an unknown selector falls back to SHA256
HashForDefaulting(hashType) == IF hashType \in {SHA1, SHA512, MD5} THEN hashType ELSE SHA256
\* the switch on the hash selector: the hasher, NoHasher for the default branch
HashFor(hashType) ==
    CASE hashType \in {SHA256, Unspecified} -> SHA256
      [] hashType = SHA1 -> SHA1
      [] hashType = SHA512 -> SHA512
      [] hashType = MD5 -> MD5
      [] OTHER -> NoHasher

\* createValidator: the hasher, then newValidator.  called: newValidator ran.
createValidator(hashType, client, checksum, filename, rem, loc) ==
    LET hasher == HashFor(hashType)
        r == newValidator(hasher, client, checksum, filename, rem, loc)
    IN  IF hasher = NoHasher
        THEN [err |-> NewError("invalid hash function"), v |-> NoValidator,
              fetched |-> FALSE, called |-> FALSE]
        ELSE IF r.err # Nil
        THEN [err |-> Wrap(r.err, "failed to create validator"), v |-> NoValidator,
              fetched |-> r.fetched, called |-> TRUE]
        ELSE [err |-> Nil, v |-> r.v, fetched |-> r.fetched, called |-> TRUE]

\* os.Remove of the temp file, its result discarded: whether the file is still
\* there afterwards.  A file whose handle is open cannot be deleted on every
\* platform (Windows refuses), so both outcomes are possible then.
RemoveTemp(open) == IF open THEN {FALSE, TRUE} ELSE {FALSE}

\* the error ToFile / DownloadToFile returns for a failed download
WrapDownload(v, e) ==
    IF v = "new" THEN Wrap(Wrap(e, "failed to download to temp file"), "failed to download")
    ELSE Wrap(e, "failed to download to temp file")

\* the error ToFile / DownloadToFile returns for a failed close
WrapClose(v, e) ==
    IF v = "new" THEN Wrap(Wrap(e, "failed to close temp file"), "failed to download")
    ELSE Wrap(e, "failed to close temp file")

\* the Mkdirs test, a faulty variant: the option is ignored
MkdirsForbidsNever(m) == FALSE
\* options.Mkdirs != nil && !*options.Mkdirs
MkdirsForbids(m) == m # "nil" /\ m # "all"

\* the error of a failed validator construction, a faulty variant: dropped
ValidatorErrorDropped(v, e) == Nil
\* what FromURL / DownloadURL returns when the validator cannot be created
ValidatorError(v, e) == IF v = "new" THEN Wrap(e, "failed to create validator") ELSE e

\* where the call goes when the copy ended, a faulty variant: the copy
\* error is not tested
AfterCopyUnchecked(outcome) == "validate"
\* if _, err = io.Copy(w, reader); err != nil { return ... }
AfterCopy(outcome) == IF outcome = "err" THEN "returned" ELSE "validate"

\* the validate() guard of the download, a faulty variant: the negation lost
CheckFailsInverted(v, data) == v.set /\ validate(v, data)
\* the validate() guard of the download, a faulty variant: the result ignored
CheckFailsNever(v, data) == FALSE
\* validator != nil && !validator.validate()
CheckFails(v, data) == v.set /\ ~validate(v, data)

\* io.TeeReader: what the validator has received after a Read of data, a
\* faulty variant: nothing is forwarded
TeeDropped(v, sofar, data) == sofar
\* io.TeeReader: every byte read is written to the validator before it is returned
Tee(v, sofar, data) == IF v.set THEN sofar \o data ELSE sofar

\* ------------------------------------------------------------ the calls
\* a call of ToFile, ToWriter or FromURL (DownloadToFile, Download, DownloadURL)
Call ==
    /\ pc = "idle"
    /\ \E a \in {"ToFile", "ToWriter", "FromURL"}, v \in {"new", "old"}, p \in SrcPaths,
          ok \in BOOLEAN, c \in ChecksumArgs, h \in Selectors, m \in MkdirsValues,
          s \in Sources, d \in {"exists", "missing", "denied"},
          old \in BOOLEAN :
        /\ a = "FromURL" => ok
        /\ a # "ToFile" => m = "nil" /\ d = "exists" /\ ~old
        /\ old => d # "missing"
        /\ (c = NoChecksum \/ IsHex(c)) => s = Absent
        /\ api' = a /\ ver' = v
        /\ src' = [ok |-> ok, path |-> p]
        /\ opts' = [checksum |-> c, hash |-> h, mkdirs |-> m]
        /\ args' = args
        /\ remote' = IF IsAbsoluteURL(c) THEN s ELSE Absent
        /\ local' = IF IsAbsoluteURL(c) THEN Absent ELSE s
        /\ dir' = d /\ dirBefore' = d
        /\ dest' = (IF old THEN OldFile ELSE NoFile)
        /\ destBefore' = (IF old THEN OldFile ELSE NoFile)
        /\ pc' = IF a = "FromURL" THEN "get" ELSE "parse"
    /\ UNCHANGED <<tmpExists, tmpOpen, gets, copyVars, checkVars, ferr, ret>>

\* url.Parse(src)
ParseURL ==
    /\ pc = "parse"
    /\ IF ~src.ok
       THEN /\ ret' = Wrap(NewError("parse error"), "invalid src URL")
            /\ pc' = "done"
       ELSE /\ pc' = (IF api = "ToFile" THEN "stat" ELSE "get")
            /\ UNCHANGED ret
    /\ UNCHANGED <<callVars, fsVars, gets, copyVars, checkVars, ferr>>

\* os.Stat(targetDir) and the Mkdirs test
StatDir ==
    /\ pc = "stat"
    /\ IF dir = "exists"
       THEN pc' = "tempfile" /\ UNCHANGED ret
       ELSE IF dir = "denied" \/ MkdirsForbids(opts.mkdirs)
       THEN /\ ret' = Wrap(NewError("stat error"), "failed to check destination directory")
            /\ pc' = "done"
       ELSE pc' = "mkdirall" /\ UNCHANGED ret
    /\ UNCHANGED <<callVars, fsVars, gets, copyVars, checkVars, ferr>>

\* os.MkdirAll(targetDir)
MkdirAll ==
    /\ pc = "mkdirall"
    /\ \/ /\ dir' = "exists"
          /\ pc' = "tempfile"
          /\ UNCHANGED ret
       \/ /\ ret' = Wrap(NewError("mkdir error"), "failed to create destination directory")
          /\ pc' = "done"
          /\ UNCHANGED dir
    /\ UNCHANGED <<callVars, dest, tmpExists, tmpOpen, gets, copyVars, checkVars, ferr>>

\* ioutil.TempFile(targetDir, ".tmp-"+targetName); on failure the old
\* DownloadToFile calls f.Name() on the nil file and panics
TempFile ==
    /\ pc = "tempfile"
    /\ \/ /\ tmpExists' = TRUE /\ tmpOpen' = TRUE
          /\ pc' = "get"
          /\ UNCHANGED ret
       \/ /\ IF ver = "new"
             THEN /\ ret' = Wrap(NewError("create error"), "failed to create temp file")
                  /\ pc' = "done"
             ELSE /\ pc' = "panic"
                  /\ UNCHANGED ret
          /\ UNCHANGED <<tmpExists, tmpOpen>>
    /\ UNCHANGED <<callVars, dir, dest, gets, copyVars, checkVars, ferr>>

\* httpClient.Get(src.String()) and the status test
HttpGet ==
    /\ pc = "get"
    /\ gets' = gets + 1
    /\ \/ /\ ferr' = Wrap(NewError("transport error"), "download failed")
          /\ pc' = "returned"
          /\ UNCHANGED body
       \/ /\ ferr' = NewError("received invalid status code")
          /\ pc' = "returned"
          /\ UNCHANGED body
       \/ /\ \E data \in Bodies : body' = data
          /\ pc' = "prepare"
          /\ UNCHANGED ferr
    /\ UNCHANGED <<callVars, fsVars, pos, buf, rdst, fed, written, copied, checkVars, ret>>

\* the validator and the tee reader when a checksum is given.  (The progress
\* bar's proxy reader hands every byte through unchanged and is left out.)
Prepare ==
    /\ pc = "prepare"
    /\ IF Len(opts.checksum) # 0
       THEN LET r == createValidator(opts.hash, "client", opts.checksum,
                                     PathBase(src.path), remote, local)
            IN  /\ resolves' = resolves + (IF r.called THEN 1 ELSE 0)
                /\ fetches' = fetches + (IF r.fetched THEN 1 ELSE 0)
                /\ IF r.err # Nil
                   THEN /\ ferr' = ValidatorError(ver, r.err)
                        /\ pc' = "returned"
                        /\ UNCHANGED validator
                   ELSE /\ validator' = r.v
                        /\ pc' = "copy"
                        /\ UNCHANGED ferr
       ELSE /\ pc' = "copy"
            /\ UNCHANGED <<validator, resolves, fetches, ferr>>
    /\ UNCHANGED <<callVars, fsVars, gets, copyVars, validates, valid, ret>>

\* io.Copy: one Read of the tee reader.  It returns n bytes with nil, with EOF
\* or with an error; the tee has written them to the validator.
CopyRead ==
    /\ pc = "copy"
    /\ \E n \in 0..Min(ChunkSize, Len(body) - pos), st \in {"nil", "eof", "err"} :
        LET data == SubSeq(body, pos + 1, pos + n) IN
        /\ st = "nil" => n >= 1
        /\ st = "eof" => pos + n = Len(body)
        /\ pos' = pos + n
        /\ fed' = Tee(validator, fed, data)
        /\ IF n > 0
           THEN /\ buf' = data /\ rdst' = st
                /\ pc' = "write"
                /\ UNCHANGED <<copied, ferr>>
           ELSE /\ UNCHANGED <<buf, rdst>>
                /\ IF st = "eof"
                   THEN /\ copied' = "eof"
                        /\ pc' = AfterCopy("eof")
                        /\ UNCHANGED ferr
                   ELSE /\ copied' = "err"
                        /\ ferr' = Wrap(NewError("read error"), "failed to copy contents")
                        /\ pc' = AfterCopy("err")
    /\ UNCHANGED <<callVars, fsVars, gets, body, written, checkVars, ret>>

\* io.Copy: the Write of the chunk to w, then the Read's own result
CopyWrite ==
    /\ pc = "write"
    /\ buf' = <<>>
    /\ \/ /\ written' = written \o buf
          /\ IF rdst = "nil"
             THEN pc' = "copy" /\ UNCHANGED <<copied, ferr>>
             ELSE IF rdst = "eof"
             THEN copied' = "eof" /\ pc' = AfterCopy("eof") /\ UNCHANGED ferr
             ELSE /\ copied' = "err"
                  /\ ferr' = Wrap(NewError("read error"), "failed to copy contents")
                  /\ pc' = AfterCopy("err")
       \/ \E k \in 0..Len(buf) :
          /\ written' = written \o SubSeq(buf, 1, k)
          /\ copied' = "err"
          /\ ferr' = Wrap(NewError("write error"), "failed to copy contents")
          /\ pc' = AfterCopy("err")
       \/ \E k \in 0..(Len(buf) - 1) :
          /\ written' = written \o SubSeq(buf, 1, k)
          /\ copied' = "err"
          /\ ferr' = Wrap(NewError("short write"), "failed to copy contents")
          /\ pc' = AfterCopy("err")
    /\ UNCHANGED <<callVars, fsVars, gets, body, pos, rdst, fed, checkVars, ret>>

\* validator != nil && !validator.validate()
Validate ==
    /\ pc = "validate"
    /\ IF validator.set
       THEN /\ validates' = validates + 1
            /\ valid' = (IF validate(validator, fed) THEN "true" ELSE "false")
       ELSE UNCHANGED <<validates, valid>>
    /\ ferr' = IF CheckFails(validator, fed) THEN NewError("checksum validation failed") ELSE Nil
    /\ pc' = "returned"
    /\ UNCHANGED <<callVars, fsVars, gets, copyVars, validator, resolves, fetches, ret>>

\* FromURL has returned: to the caller, or into downloadFile / DownloadToFile,
\* which removes the temp file when the download failed
AfterFromURL ==
    /\ pc = "returned"
    /\ IF api # "ToFile"
       THEN /\ ret' = ferr
            /\ pc' = "done"
            /\ UNCHANGED fsVars
       ELSE IF ferr # Nil
       THEN /\ \E left \in RemoveTemp(tmpOpen) : tmpExists' = left
            /\ ret' = WrapDownload(ver, ferr)
            /\ pc' = "done"
            /\ UNCHANGED <<dir, dest, tmpOpen>>
       ELSE /\ pc' = "close"
            /\ UNCHANGED <<fsVars, ret>>
    /\ UNCHANGED <<callVars, gets, copyVars, checkVars, ferr>>

\* f.Close()
CloseTemp ==
    /\ pc = "close"
    /\ tmpOpen' = FALSE
    /\ \/ /\ pc' = "rename"
          /\ UNCHANGED <<tmpExists, ret>>
       \/ /\ \E left \in RemoveTemp(FALSE) : tmpExists' = left
          /\ ret' = WrapClose(ver, NewError("close error"))
          /\ pc' = "done"
    /\ UNCHANGED <<callVars, dir, dest, gets, copyVars, checkVars, ferr>>

\* os.Rename(f.Name(), dest)
Rename ==
    /\ pc = "rename"
    /\ \/ /\ dest' = File(written)
          /\ tmpExists' = FALSE
          /\ ret' = Nil
       \/ /\ \E left \in RemoveTemp(tmpOpen) : tmpExists' = left
          /\ ret' = Wrap(NewError("rename error"), "failed to rename temp file to destination")
          /\ UNCHANGED dest
    /\ pc' = "done"
    /\ UNCHANGED <<callVars, dir, tmpOpen, gets, copyVars, checkVars, ferr>>

Next ==
    \/ Call \/ ParseURL \/ StatDir \/ MkdirAll \/ TempFile
    \/ HttpGet \/ Prepare \/ CopyRead \/ CopyWrite \/ Validate
    \/ AfterFromURL \/ CloseTemp \/ Rename

Spec == Init /\ [][Next]_vars

\* ------------------------------------------------------------ the parser, on every text
\* The step of FromURL that creates the validator, started right after the GET
\* of a download whose checksum argument is the URL of a checksum file, for
\* every checksum-file text up to MaxContent characters.
ParseChars == {"a", "f", " ", "\n"}
ParsePaths == {<< <<"d">>, <<"f">> >>, << <<"a">> >>}

InitParse ==
    /\ pc = "prepare"
    /\ api = "FromURL" /\ ver \in {"new", "old"}
    /\ \E p \in ParsePaths : src = [ok |-> TRUE, path |-> p]
    /\ opts = [checksum |-> UrlArg, hash |-> MD5, mkdirs |-> "nil"]
    /\ args = NoArgs
    /\ \E text \in SeqsUpTo(ParseChars, MaxContent) : remote = Holding(text)
    /\ local = Absent
    /\ dir = "exists" /\ dirBefore = "exists" /\ dest = NoFile /\ destBefore = NoFile
    /\ tmpExists = FALSE /\ tmpOpen = FALSE
    /\ gets = 1
    /\ body = <<>> /\ pos = 0 /\ buf = <<>> /\ rdst = "nil"
    /\ validator = NoValidator
    /\ fed = <<>> /\ written = <<>>
    /\ resolves = 0 /\ fetches = 0 /\ validates = 0
    /\ valid = "none" /\ copied = "none"
    /\ ferr = Pending /\ ret = Pending

SpecParse == InitParse /\ [][Prepare]_vars

\* ------------------------------------------------------------ newValidator, on every argument
\* A direct call newValidator(hasher, client, checksum, filename), as the test
\* makes it, for every checksum argument up to MaxArg characters.
ArgChars == {"h", ":", "a", "F", "t", " "}

InitClassify ==
    /\ pc = "newValidator"
    /\ api = "newValidator" /\ ver = "new"
    /\ src = [ok |-> TRUE, path |-> <<>>]
    /\ opts = [checksum |-> NoChecksum, hash |-> Unspecified, mkdirs |-> "nil"]
    /\ \E h \in Hashes \cup {NoHasher}, cl \in {"nil", "client"},
          c \in SeqsUpTo(ArgChars, MaxArg), f \in {<<>>, <<"f">>} :
        args = [hasher |-> h, client |-> cl, checksum |-> c, filename |-> f]
    /\ remote \in {Absent, Holding(BareDigest(MD5))}
    /\ local \in {Absent, Broken, Holding(BareDigest(MD5))}
    /\ ~IsAbsoluteURL(args.checksum) => remote = Absent
    /\ (IsAbsoluteURL(args.checksum) \/ args.checksum = <<>>) => local = Absent
    /\ dir = "exists" /\ dirBefore = "exists" /\ dest = NoFile /\ destBefore = NoFile
    /\ tmpExists = FALSE /\ tmpOpen = FALSE
    /\ gets = 0
    /\ body = <<>> /\ pos = 0 /\ buf = <<>> /\ rdst = "nil"
    /\ validator = NoValidator
    /\ fed = <<>> /\ written = <<>>
    /\ resolves = 0 /\ fetches = 0 /\ validates = 0
    /\ valid = "none" /\ copied = "none"
    /\ ferr = Pending /\ ret = Pending

\* the call and its two results
NewValidatorCall ==
    /\ pc = "newValidator"
    /\ LET r == newValidator(args.hasher, args.client, args.checksum, args.filename,
                             remote, local)
       IN  /\ validator' = r.v
           /\ ret' = r.err
           /\ fetches' = fetches + (IF r.fetched THEN 1 ELSE 0)
    /\ resolves' = resolves + 1
    /\ pc' = "done"
    /\ UNCHANGED <<callVars, fsVars, gets, copyVars, validates, valid, ferr>>

SpecClassify == InitClassify /\ [][NewValidatorCall]_vars

\* ------------------------------------------------------------ properties
\* the innermost error of a wrapped error
Cause(err) == err[Len(err)]

Returned == pc = "done"
Succeeded == pc = "done" /\ ret = Nil
Failed == pc = "done" /\ ret # Nil
IsDownload == api \in {"ToFile", "ToWriter", "FromURL"}
CopyErrors == {"read error", "write error", "short write"}
ConstructionErrors ==
    {"invalid hash function", "invalid checksum", "checksum source unreachable",
     "checksum not found for file"}

\* C1: a download with a non-empty Checksum returns success only if the copy
\* reached end-of-stream without error and validate() returned true, that is the
\* lowercase hex digest of exactly the bytes copied to the writer equals the
\* expected digest (lowercased); whenever validate() returned false the call
\* returns the error "checksum validation failed" and never success.
C1_SuccessOnlyWhenValid ==
    /\ (IsDownload /\ Succeeded /\ opts.checksum # NoChecksum) =>
          /\ copied = "eof"
          /\ valid = "true"
          /\ validator.set
          /\ HexDigest(validator.hasher, written) = ToLower(validator.expected)
          /\ written = body
          /\ (api = "ToFile" => dest = File(written))
    /\ (IsDownload /\ valid = "false" /\ ferr # Pending) =>
          ferr = NewError("checksum validation failed")
    /\ (IsDownload /\ valid = "false" /\ Returned) =>
          ret # Nil /\ Cause(ret) = "checksum validation failed"

C1_Witness ==
    /\ api = "ToFile" /\ Succeeded
    /\ opts.checksum = ToUpper(HexDigest(MD5, RefData))
    /\ valid = "true"

\* C2 as stated: for every checksum argument that is no absolute URL and not
\* valid hex, newValidator fails with an error whose text starts with "invalid
\* checksum" and returns no validator, whatever the hasher, client and filename.
C2_AnyNonUrlNonHexIsInvalid ==
    (api = "newValidator" /\ Returned
        /\ ~IsAbsoluteURL(args.checksum) /\ ~IsHex(args.checksum)) =>
          /\ ret # Nil
          /\ Head(ret) = "invalid checksum"
          /\ ~validator.set

\* C2 as amended: for every checksum argument that is no absolute URL, not valid
\* hex and names no existing local file, newValidator fails with an error whose
\* text starts with "invalid checksum", returns no validator and has retrieved
\* no checksum source, whatever the hasher, client and filename (nil and empty
\* ones included).
C2_UnresolvableIsInvalid ==
    (api = "newValidator" /\ Returned
        /\ ~IsAbsoluteURL(args.checksum) /\ ~IsHex(args.checksum)
        /\ local.state = "absent") =>
          /\ ret # Nil
          /\ Head(ret) = "invalid checksum"
          /\ ~validator.set
          /\ fetches = 0

C2_Witness ==
    /\ api = "newValidator" /\ Returned
    /\ args = [hasher |-> NoHasher, client |-> "nil", checksum |-> <<"t", " ", "t">>,
               filename |-> <<>>]
    /\ local.state = "absent"
    /\ ret = InvalidChecksum

\* C3: in ToFile / DownloadToFile dest is created or replaced only by the final
\* rename, after the transfer, the checksum validation (when a checksum is
\* given) and the close of the temp file have all succeeded; on every error
\* return the temp file has been removed and dest is as it was before the call.
C3_TempFileThenRename ==
    /\ (api = "ToFile" /\ dest # destBefore) =>
          /\ Succeeded
          /\ copied = "eof"
          /\ (opts.checksum # NoChecksum => valid = "true")
          /\ ~tmpOpen
          /\ dest = File(written)
    /\ (api = "ToFile" /\ Failed) => (~tmpExists /\ dest = destBefore)

\* the part of C3 about dest alone
C3_DestOnlyByRename ==
    /\ (api = "ToFile" /\ dest # destBefore) =>
          /\ Succeeded
          /\ copied = "eof"
          /\ (opts.checksum # NoChecksum => valid = "true")
          /\ ~tmpOpen
          /\ dest = File(written)
    /\ (api = "ToFile" /\ Failed) => dest = destBefore

\* a valid-hex checksum argument shorter than the digest of the selected algorithm
ShortHex ==
    /\ IsDownload
    /\ IsHex(opts.checksum)
    /\ opts.hash \in Hashes \cup {Unspecified}
    /\ Len(opts.checksum) < 2 * Size(IF opts.hash = Unspecified THEN SHA256 ELSE opts.hash)

Text == remote.text
Target == src.path[Len(src.path)]
Resolved == pc # "prepare"

\* text with its i-th character removed
Without(text, i) == SubSeq(text, 1, i - 1) \o SubSeq(text, i + 1, Len(text))

\* the i-th character is leading or trailing whitespace of its line, or the
\* line break of an empty line
Removable(text, i) ==
    /\ text[i] \in {" ", "\n"}
    /\ \/ i = 1 \/ i = Len(text)
       \/ text[i - 1] = "\n" \/ text[i + 1] = "\n"

RECURSIVE FirstNamed(_, _)
FirstNamed(es, target) ==
    IF es = <<>> THEN 0
    ELSE IF es[Len(es)][2] = target /\ FirstNamed(SubSeq(es, 1, Len(es) - 1), target) = 0
    THEN Len(es)
    ELSE FirstNamed(SubSeq(es, 1, Len(es) - 1), target)

\* C5: resolution of a checksum file for the base name of the source URL path.
\* For a text of "DIGEST FILENAME" lines the validator expects the digest of the
\* first line whose filename equals the target exactly, and construction fails
\* with the not-found error when no line names it; for a text that is one bare
\* digest the validator expects that digest, whatever the target; removing a
\* leading or trailing whitespace character of a line, or an empty line, does
\* not change the result.
C5_ChecksumFileResolution ==
    LET es == Entries(Text)
        n == FirstNamed(es, Target)
    IN  /\ (Resolved /\ es # <<>> /\ \A i \in 1..Len(es) : Len(es[i]) = 2) =>
              IF n # 0
              THEN validator.set /\ validator.expected = es[n][1] /\ ferr = Pending
              ELSE ~validator.set /\ Cause(ferr) = "checksum not found for file"
        /\ (Resolved /\ Len(es) = 1 /\ Len(es[1]) = 1) =>
              validator.set /\ validator.expected = es[1][1]
        /\ ~Resolved =>
              \A i \in 1..Len(Text) :
                  Removable(Text, i) =>
                      resolveExpectedDigest(Without(Text, i), Target)
                          = resolveExpectedDigest(Text, Target)

C5_Witness ==
    /\ Resolved
    /\ Text = <<"a", " ", "f", "\n", "f", " ", "f">>
    /\ src.path = << <<"d">>, <<"f">> >>
    /\ validator.set /\ validator.expected = <<"a">>

\* C6: the hasher is fixed by the selector at validator construction: 0 selects
\* SHA256, MD5, SHA1, SHA256 and SHA512 select themselves; with any other
\* selector and a non-empty checksum, construction fails with "invalid hash
\* function", no checksum source is retrieved or parsed, no validator exists and
\* the download does not return success.
C6_HashSelection ==
    /\ (IsDownload /\ validator.set) =>
          /\ opts.hash \in Hashes \cup {Unspecified}
          /\ validator.hasher = (IF opts.hash = Unspecified THEN SHA256 ELSE opts.hash)
    /\ (IsDownload /\ opts.checksum # NoChecksum /\ opts.hash \notin Hashes \cup {Unspecified}) =>
          /\ resolves = 0 /\ fetches = 0
          /\ ~validator.set
          /\ pc \notin {"copy", "write", "validate", "close", "rename"}
          /\ ~Succeeded
          /\ (ferr # Pending =>
                Cause(ferr) \in {"transport error", "received invalid status code",
                                 "invalid hash function"})

C6_Witness ==
    /\ IsDownload /\ Failed
    /\ opts.hash = OtherHash /\ opts.checksum = UrlArg /\ remote.state = "ok"
    /\ Cause(ret) = "invalid hash function"

\* validator construction fails for this call's checksum, hash and sources
ConstructionFails ==
    \/ opts.hash \notin Hashes \cup {Unspecified}
    \/ (IsAbsoluteURL(opts.checksum) /\ remote.state # "ok")
    \/ (IsAbsoluteURL(opts.checksum) /\ remote.state = "ok"
          /\ resolveExpectedDigest(remote.text, src.path[Len(src.path)]).err # Nil)
    \/ (~IsAbsoluteURL(opts.checksum) /\ ~IsHex(opts.checksum) /\ local.state \in {"absent", "broken"})
    \/ (~IsAbsoluteURL(opts.checksum) /\ ~IsHex(opts.checksum) /\ local.state = "ok"
          /\ resolveExpectedDigest(local.text, src.path[Len(src.path)]).err # Nil)

C8_Mkdirs ==
    (api = "ToFile" /\ src.ok) =>
      /\ (dirBefore = "missing" /\ opts.mkdirs = "none") =>
            /\ dir = "missing" /\ ~tmpExists /\ gets = 0
            /\ pc \in {"parse", "stat", "done"}
            /\ (Returned => ret # Nil /\ Head(ret) = "failed to check destination directory")
      /\ (dirBefore = "missing" /\ opts.mkdirs \in {"nil", "all"}) =>
            /\ pc \notin {"parse", "stat", "mkdirall", "done"} => dir = "exists"
            /\ tmpExists => dir = "exists"
            /\ pc = "tempfile" => ~tmpExists
            /\ Failed => Head(ret) # "failed to check destination directory"
      /\ dirBefore = "denied" =>
            /\ dir = "denied" /\ ~tmpExists /\ gets = 0
            /\ pc \in {"parse", "stat", "done"}
            /\ (Returned => ret # Nil /\ Head(ret) = "failed to check destination directory")

C8_Witness ==
    /\ api = "ToFile" /\ Failed
    /\ dirBefore = "missing" /\ opts.mkdirs = "none"
    /\ dir = "missing" /\ gets = 0

\* C9: validate() is called at most once, and only after the copy loop saw
\* end-of-stream with no error, when the validator has received the whole
\* payload; when the copy ends with an error validate() is not called and the
\* error returned is the copy error.
C9_ValidateAfterCopy ==
    IsDownload =>
      /\ validates <= 1
      /\ validates = 1 =>
            /\ copied = "eof" /\ pos = Len(body)
            /\ fed = body
      /\ valid # "none" => validates = 1
      /\ copied = "err" =>
            /\ validates = 0 /\ valid = "none"
            /\ ferr # Pending
            /\ Head(ferr) = "failed to copy contents" /\ Cause(ferr) \in CopyErrors
            /\ (Returned => ret # Nil /\ Cause(ret) \in CopyErrors)

C9_Witness ==
    /\ api = "FromURL" /\ Failed
    /\ validator.set /\ copied = "err" /\ written # <<>>
    /\ Cause(ret) = "write error"
    /\ validates = 0

\* C10: in a download with a checksum the bytes written to the destination
\* writer are always a prefix of the bytes fed to the validator, which are the
\* payload bytes read so far, each once and in order; the validator is ahead by
\* no more than the chunk in flight; when the copy completes the two are equal.
C10_Tee ==
    (IsDownload /\ validator.set) =>
      /\ IsPrefix(written, fed)
      /\ fed = SubSeq(body, 1, pos)
      /\ Len(fed) - Len(written) <= ChunkSize
      /\ (pc = "write" => fed = written \o buf)
      /\ (copied = "eof" => written = fed /\ fed = body)

C10_Witness ==
    /\ IsDownload /\ validator.set
    /\ pc = "write" /\ written # <<>> /\ buf # <<>>

\* the failure branch of ioutil.TempFile is the step out of "tempfile" that
\* leaves no temp file behind
TempFileFails == pc = "tempfile" /\ ~tmpExists'

\* the call has come back with an ordinary error value for the failed creation
TempFileErrorReturned ==
    /\ pc' = "done"
    /\ ret' = Wrap(NewError("create error"), "failed to create temp file")
    /\ gets' = 0
    /\ dest' = destBefore'
    /\ ~tmpExists' /\ ~tmpOpen'

\* C11: if creating the temp file in the target directory fails, ToFile /
\* DownloadToFile returns the error "failed to create temp file" as an ordinary
\* error value: it does not crash on the absent file handle, it has issued no
\* HTTP request, and dest is as it was before the call.
C11_TempFileFailureReturnsError ==
    [][TempFileFails => TempFileErrorReturned]_vars

\* C11 for ToFile of download.go alone, which returns before touching the handle
C11_ToFileReturnsError ==
    [][(TempFileFails /\ ver = "new") => TempFileErrorReturned]_vars

\* DownloadToFile never survives a failed creation: it always ends in the panic
C11_DownloadToFilePanics ==
    [][(TempFileFails /\ ver = "old") => (pc' = "panic" /\ gets' = 0 /\ dest' = destBefore')]_vars

====
